---------------------------- MODULE Spec2Model ----------------------------
(***************************************************************************)
(* E-waste optimisation tool: the Assignment view (per-row minimum          *)
(* heuristic behind a deferred callback), the Transportation view (Vogel's  *)
(* Approximation Method), their edit handlers, and the cost model.          *)
(*                                                                          *)
(* Conventions.  JavaScript arrays are sequences; indices are 1-based here  *)
(* (index k of the model is index k-1 of the source).  A label is kept as   *)
(* the number that distinguishes it: "Vehicle 3" is 3, "Zone C" is the char *)
(* code 67, "Collection B" is 66, "Processing 2" is 2.  The text typed into *)
(* an input is a sequence of one-character strings.  React state read by a  *)
(* handler is the state of the latest render; a setTimeout callback reads   *)
(* the state captured by the render in which it was scheduled (closure).    *)
(***************************************************************************)
EXTENDS Integers, Sequences, FiniteSets, TLC

VARIABLES
    \* Assignment view (AssignmentProblem component)
    aSolving, aSolution, aCost, aZones, aVehicles, aTimers,
    \* Transportation view (TransportationModel component)
    tSolving, tSolution, tSources, tDestinations, tSupply, tDemand, tCost, tTimers,
    \* one run of the VAM body: the closure it reads, its locals, its position
    vIn, remainingSupply, remainingDemand, allocated, usedRow, usedCol,
    optimalPlan, vPc,
    \* Cost model (CostMinimization component); history: the inputs read by the
    \* latest calculateOptimization
    cInputs, cResult, calcInputs,
    \* the toast shown by the last step ("" when it showed none)
    toast,
    \* history: the last handler or callback run, the view's solution just before
    \* it ran, and the number of handlers the user has invoked
    lastOp, prevSolution, ops

aVars == <<aSolving, aSolution, aCost, aZones, aVehicles, aTimers>>
tVars == <<tSolving, tSolution, tSources, tDestinations, tSupply, tDemand, tCost,
           tTimers>>
vVars == <<vIn, remainingSupply, remainingDemand, allocated, usedRow, usedCol,
           optimalPlan, vPc>>
cVars == <<cInputs, cResult, calcInputs>>
hVars == <<toast, lastOp, prevSolution, ops>>
vars == <<aVars, tVars, vVars, cVars, hVars>>

---------------------------------------------------------------------------
(* Bounds *)

\* handlers invoked by the user in one behaviour (timer callbacks not counted)
MaxOps == 3

\* the total supply (= total demand) of an enumerated VAM instance
MaxTotal == 3

\* handlers of the cost model invoked by the user in one behaviour
MaxCostOps == 5

\* cost cells edited before the first solve of a repeated-solve session
MaxEdits == 2

\* handlers invoked by the user in one behaviour of the fair specification
MaxFairOps == 2

---------------------------------------------------------------------------
(* JavaScript helpers *)

\* useState<T | null>: null, or a value
NULL == [isNull |-> TRUE, items |-> <<>>]
Some(list) == [isNull |-> FALSE, items |-> list]

\* Array.prototype.filter((_, i) => i !== index)
RemoveAt(seq, index) ==
    [k \in 1..(Len(seq) - 1) |-> IF k < index THEN seq[k] ELSE seq[k + 1]]

\* Array(n).fill(v)
Fill(n, v) == [k \in 1..n |-> v]

\* array.reduce((a, b) => a + b, 0)
RECURSIVE SumSeq(_)
SumSeq(seq) == IF seq = <<>> THEN 0 ELSE Head(seq) + SumSeq(Tail(seq))

DigitVal == [ch \in {"0", "1", "2", "3", "4", "5", "6", "7", "8", "9"} |->
               CASE ch = "0" -> 0 [] ch = "1" -> 1 [] ch = "2" -> 2 [] ch = "3" -> 3
                 [] ch = "4" -> 4 [] ch = "5" -> 5 [] ch = "6" -> 6 [] ch = "7" -> 7
                 [] ch = "8" -> 8 [] ch = "9" -> 9]

\* the longest prefix of decimal digits of text, as [n: how many, val: their value]
RECURSIVE DigitsPrefix(_, _, _)
DigitsPrefix(text, n, val) ==
    IF text # <<>> /\ Head(text) \in DOMAIN DigitVal
    THEN DigitsPrefix(Tail(text), n + 1, 10 * val + DigitVal[Head(text)])
    ELSE [n |-> n, val |-> val]

\* parseInt(value): optional sign, then leading decimal digits; NaN without any
ParseInt(text) ==
    LET neg == text # <<>> /\ Head(text) = "-"
        signed == text # <<>> /\ Head(text) \in {"-", "+"}
        d == DigitsPrefix(IF signed THEN Tail(text) ELSE text, 0, 0)
    IN  [nan |-> d.n = 0, val |-> IF neg THEN 0 - d.val ELSE d.val]

\* parseInt(value) || 0: NaN and 0 are falsy
ParseIntOrZero(text) ==
    LET p == ParseInt(text) IN IF p.nan \/ p.val = 0 THEN 0 ELSE p.val

\* Math.min(...seq) of a non-empty array
RECURSIVE MathMin(_)
MathMin(seq) ==
    IF Len(seq) = 1 THEN seq[1]
    ELSE LET rest == MathMin(Tail(seq))
         IN  IF seq[1] <= rest THEN seq[1] ELSE rest

\* Math.max(...seq) of a non-empty array
RECURSIVE MathMax(_)
MathMax(seq) ==
    IF Len(seq) = 1 THEN seq[1]
    ELSE LET rest == MathMax(Tail(seq))
         IN  IF seq[1] >= rest THEN seq[1] ELSE rest

\* the last index holding v (what lastIndexOf would return)
LastIndexOf(seq, v) ==
    LET hits == {k \in DOMAIN seq : seq[k] = v}
    IN  CHOOSE k \in hits : \A h \in hits : h <= k

\* Array.prototype.indexOf(v), v present: the first index holding v
IndexOf(seq, v) ==
    LET hits == {k \in DOMAIN seq : seq[k] = v}
    IN  CHOOSE k \in hits : \A h \in hits : k <= h

---------------------------------------------------------------------------
(* Assignment view *)

\* the text of a cost cell of the Assignment view after a keystroke: the empty
\* text of a cleared cell, and "40.5"
AssignTexts == {<<>>, <<"4", "0", ".", "5">>}

DefaultCostMatrix == << <<45, 60, 50, 55>>,
                        <<50, 40, 55, 45>>,
                        <<55, 45, 40, 50>>,
                        <<50, 55, 45, 40>> >>
DefaultZones == <<65, 66, 67, 68>>
DefaultVehicles == <<1, 2, 3, 4>>

InitA ==
    /\ aSolving = FALSE
    /\ aSolution = NULL
    /\ aCost = DefaultCostMatrix
    /\ aZones = DefaultZones
    /\ aVehicles = DefaultVehicles
    /\ aTimers = <<>>

\* costMatrix.map((r, i) => i === row ? r.map((c, j) => j === col ? numValue : c) : r)
SetCell(matrix, row, col, numValue) ==
    [i \in DOMAIN matrix |->
        IF i = row
        THEN [j \in DOMAIN matrix[i] |-> IF j = col THEN numValue ELSE matrix[i][j]]
        ELSE matrix[i]]

\* an updateCost without the setSolution(null) of line 37
UpdateCostAKeepsSolution ==
    \E row \in DOMAIN aCost : \E col \in DOMAIN aCost[row] : \E value \in AssignTexts :
        /\ ops < MaxOps
        /\ aCost' = SetCell(aCost, row, col, ParseIntOrZero(value))
        /\ toast' = ""
        /\ lastOp' = "UpdateCostA"
        /\ prevSolution' = aSolution
        /\ ops' = ops + 1
        /\ UNCHANGED <<aSolution, aSolving, aZones, aVehicles, aTimers, tVars, vVars, cVars>>

UpdateCostA ==
    \E row \in DOMAIN aCost : \E col \in DOMAIN aCost[row] : \E value \in AssignTexts :
        /\ ops < MaxOps
        /\ aCost' = SetCell(aCost, row, col, ParseIntOrZero(value))
        /\ aSolution' = NULL
        /\ toast' = ""
        /\ lastOp' = "UpdateCostA"
        /\ prevSolution' = aSolution
        /\ ops' = ops + 1
        /\ UNCHANGED <<aSolving, aZones, aVehicles, aTimers, tVars, vVars, cVars>>

AddVehicle ==
    /\ ops < MaxOps
    /\ aVehicles' = Append(aVehicles, Len(aVehicles) + 1)
    /\ aCost' = Append(aCost, Fill(Len(aZones), 50))
    /\ aSolution' = NULL
    /\ toast' = "Vehicle added"
    /\ lastOp' = "AddVehicle"
    /\ prevSolution' = aSolution
    /\ ops' = ops + 1
    /\ UNCHANGED <<aSolving, aZones, aTimers, tVars, vVars, cVars>>

\* a removeVehicle whose refusal also clears the solution
RemoveVehicleClearsSolution ==
    \E index \in DOMAIN aVehicles :
        /\ ops < MaxOps
        /\ IF Len(aVehicles) <= 1
           THEN /\ toast' = "Must have at least one vehicle"
                /\ aSolution' = NULL
                /\ UNCHANGED <<aVehicles, aCost>>
           ELSE /\ aVehicles' = RemoveAt(aVehicles, index)
                /\ aCost' = RemoveAt(aCost, index)
                /\ aSolution' = NULL
                /\ toast' = "Vehicle removed"
        /\ lastOp' = "RemoveVehicle"
        /\ prevSolution' = aSolution
        /\ ops' = ops + 1
        /\ UNCHANGED <<aSolving, aZones, aTimers, tVars, vVars, cVars>>

RemoveVehicle ==
    \E index \in DOMAIN aVehicles :
        /\ ops < MaxOps
        /\ IF Len(aVehicles) <= 1
           THEN /\ toast' = "Must have at least one vehicle"
                /\ UNCHANGED <<aVehicles, aCost, aSolution>>
           ELSE /\ aVehicles' = RemoveAt(aVehicles, index)
                /\ aCost' = RemoveAt(aCost, index)
                /\ aSolution' = NULL
                /\ toast' = "Vehicle removed"
        /\ lastOp' = "RemoveVehicle"
        /\ prevSolution' = aSolution
        /\ ops' = ops + 1
        /\ UNCHANGED <<aSolving, aZones, aTimers, tVars, vVars, cVars>>

AddZone ==
    /\ ops < MaxOps
    /\ aZones' = Append(aZones, 65 + Len(aZones))
    /\ aCost' = [i \in DOMAIN aCost |-> Append(aCost[i], 50)]
    /\ aSolution' = NULL
    /\ toast' = "Zone added"
    /\ lastOp' = "AddZone"
    /\ prevSolution' = aSolution
    /\ ops' = ops + 1
    /\ UNCHANGED <<aSolving, aVehicles, aTimers, tVars, vVars, cVars>>

RemoveZone ==
    \E index \in DOMAIN aZones :
        /\ ops < MaxOps
        /\ IF Len(aZones) <= 1
           THEN /\ toast' = "Must have at least one zone"
                /\ UNCHANGED <<aZones, aCost, aSolution>>
           ELSE /\ aZones' = RemoveAt(aZones, index)
                /\ aCost' = [i \in DOMAIN aCost |-> RemoveAt(aCost[i], index)]
                /\ aSolution' = NULL
                /\ toast' = "Zone removed"
        /\ lastOp' = "RemoveZone"
        /\ prevSolution' = aSolution
        /\ ops' = ops + 1
        /\ UNCHANGED <<aSolving, aVehicles, aTimers, tVars, vVars, cVars>>

\* matrix.map(row => row[j])
Column(matrix, j) == [i \in DOMAIN matrix |-> matrix[i][j]]

\* a solver that gives every row a column of its own: the first cheapest column
\* no earlier row has taken (any cheapest column once all are taken)
RECURSIVE AssignDistinct(_, _, _, _, _)
AssignDistinct(vehicles, zones, costMatrix, i, taken) ==
    IF i > Len(vehicles) THEN <<>>
    ELSE LET row == costMatrix[i]
             free == {j \in DOMAIN row : j \notin taken}
             cand == IF free = {} THEN DOMAIN row ELSE free
             best == CHOOSE j \in cand :
                        \A k \in cand : row[j] < row[k] \/ (row[j] = row[k] /\ j <= k)
         IN  <<[vehicle |-> vehicles[i], zone |-> zones[best], cost |-> row[best]]>>
             \o AssignDistinct(vehicles, zones, costMatrix, i + 1, taken \cup {best})

OptimalAssignmentsOneToOne(vehicles, zones, costMatrix) ==
    AssignDistinct(vehicles, zones, costMatrix, 1, {})

\* a solver that walks the zones instead of the vehicles: one tuple per zone,
\* for the vehicle cheapest in that zone's column
OptimalAssignmentsPerZone(vehicles, zones, costMatrix) ==
    [j \in DOMAIN zones |->
        LET cheapest == CHOOSE i \in DOMAIN costMatrix :
                            \A k \in DOMAIN costMatrix :
                                \/ costMatrix[i][j] < costMatrix[k][j]
                                \/ (costMatrix[i][j] = costMatrix[k][j] /\ i <= k)
        IN  [vehicle |-> vehicles[cheapest],
             zone |-> zones[j],
             cost |-> costMatrix[cheapest][j]]]

\* the index of the row's minimum: costMatrix[i].indexOf(Math.min(...costMatrix[i]))
MinCostIndex(row) == IndexOf(row, MathMin(row))

\* vehicles.map((vehicle, i) => ({vehicle, zone: zones[minCostIndex], cost: ...}))
OptimalAssignments(vehicles, zones, costMatrix) ==
    [i \in DOMAIN vehicles |->
        LET minCostIndex == MinCostIndex(costMatrix[i])
        IN  [vehicle |-> vehicles[i],
             zone |-> zones[minCostIndex],
             cost |-> costMatrix[i][minCostIndex]]]

\* the state a callback scheduled now will read when it runs
ClosureA == [vehicles |-> aVehicles, zones |-> aZones, costMatrix |-> aCost]

\* a Solve handler without the dimension check of lines 82-85
SolveAssignmentUnchecked ==
    /\ aSolving = FALSE
    /\ ops < MaxOps
    /\ aSolving' = TRUE
    /\ aTimers' = Append(aTimers, ClosureA)
    /\ toast' = ""
    /\ lastOp' = "SolveAssignment"
    /\ prevSolution' = aSolution
    /\ ops' = ops + 1
    /\ UNCHANGED <<aSolution, aCost, aZones, aVehicles, tVars, vVars, cVars>>

\* a Solve handler whose button is not disabled while solving
SolveAssignmentNotDisabled ==
    /\ ops < MaxOps
    /\ IF Len(aVehicles) # Len(aZones)
       THEN /\ toast' = "Number of vehicles must equal number of zones"
            /\ UNCHANGED <<aSolving, aTimers>>
       ELSE /\ aSolving' = TRUE
            /\ aTimers' = Append(aTimers, ClosureA)
            /\ toast' = ""
    /\ lastOp' = "SolveAssignment"
    /\ prevSolution' = aSolution
    /\ ops' = ops + 1
    /\ UNCHANGED <<aSolution, aCost, aZones, aVehicles, tVars, vVars, cVars>>

\* the Solve button of the Assignment view; it is disabled while solving
SolveAssignment ==
    /\ aSolving = FALSE
    /\ ops < MaxOps
    /\ IF Len(aVehicles) # Len(aZones)
       THEN /\ toast' = "Number of vehicles must equal number of zones"
            /\ UNCHANGED <<aSolving, aTimers>>
       ELSE /\ aSolving' = TRUE
            /\ aTimers' = Append(aTimers, ClosureA)
            /\ toast' = ""
    /\ lastOp' = "SolveAssignment"
    /\ prevSolution' = aSolution
    /\ ops' = ops + 1
    /\ UNCHANGED <<aSolution, aCost, aZones, aVehicles, tVars, vVars, cVars>>

\* the setTimeout callback of solveAssignment, 1500 ms after the click
AssignmentTimeout ==
    /\ aTimers # <<>>
    /\ LET c == Head(aTimers)
       IN  aSolution' = Some(OptimalAssignments(c.vehicles, c.zones, c.costMatrix))
    /\ aSolving' = FALSE
    /\ toast' = "Optimal assignment found!"
    /\ aTimers' = Tail(aTimers)
    /\ lastOp' = "AssignmentTimeout"
    /\ prevSolution' = aSolution
    /\ UNCHANGED <<aCost, aZones, aVehicles, ops, tVars, vVars, cVars>>

\* const totalCost = solution?.reduce((sum, a) => sum + a.cost, 0) || 0
TotalCostA ==
    IF aSolution.isNull THEN 0
    ELSE SumSeq([k \in DOMAIN aSolution.items |-> aSolution.items[k].cost])

---------------------------------------------------------------------------
(* Transportation view *)

\* the text of a supply, demand or cost input of the Transportation view after
\* a keystroke: the empty text of a cleared input, and "400"
TransTexts == {<<>>, <<"4", "0", "0">>}

DefaultSources == <<65, 66, 67>>
DefaultDestinations == <<1, 2, 3>>
DefaultSupply == <<300, 400, 500>>
DefaultDemand == <<400, 500, 300>>
DefaultTransCost == << <<8, 6, 10>>,
                       <<9, 12, 13>>,
                       <<14, 9, 16>> >>

InitT ==
    /\ tSolving = FALSE
    /\ tSolution = NULL
    /\ tSources = DefaultSources
    /\ tDestinations = DefaultDestinations
    /\ tSupply = DefaultSupply
    /\ tDemand = DefaultDemand
    /\ tCost = DefaultTransCost
    /\ tTimers = <<>>

\* const copy = [...array]; copy[index] = numValue
SetAt(seq, index, numValue) ==
    [k \in DOMAIN seq |-> IF k = index THEN numValue ELSE seq[k]]

UpdateSupply ==
    \E index \in DOMAIN tSupply : \E value \in TransTexts :
        /\ ops < MaxOps
        /\ tSupply' = SetAt(tSupply, index, ParseIntOrZero(value))
        /\ tSolution' = NULL
        /\ toast' = ""
        /\ lastOp' = "UpdateSupply"
        /\ prevSolution' = tSolution
        /\ ops' = ops + 1
        /\ UNCHANGED <<tSolving, tSources, tDestinations, tDemand, tCost, tTimers,
                       aVars, vVars, cVars>>

UpdateDemand ==
    \E index \in DOMAIN tDemand : \E value \in TransTexts :
        /\ ops < MaxOps
        /\ tDemand' = SetAt(tDemand, index, ParseIntOrZero(value))
        /\ tSolution' = NULL
        /\ toast' = ""
        /\ lastOp' = "UpdateDemand"
        /\ prevSolution' = tSolution
        /\ ops' = ops + 1
        /\ UNCHANGED <<tSolving, tSources, tDestinations, tSupply, tCost, tTimers,
                       aVars, vVars, cVars>>

UpdateCostT ==
    \E row \in DOMAIN tCost : \E col \in DOMAIN tCost[row] : \E value \in TransTexts :
        /\ ops < MaxOps
        /\ tCost' = SetCell(tCost, row, col, ParseIntOrZero(value))
        /\ tSolution' = NULL
        /\ toast' = ""
        /\ lastOp' = "UpdateCostT"
        /\ prevSolution' = tSolution
        /\ ops' = ops + 1
        /\ UNCHANGED <<tSolving, tSources, tDestinations, tSupply, tDemand, tTimers,
                       aVars, vVars, cVars>>

\* an addSource without the setSupply of line 347
AddSourceNoSupply ==
    /\ ops < MaxOps
    /\ tSources' = Append(tSources, 65 + Len(tSources))
    /\ tCost' = Append(tCost, Fill(Len(tDestinations), 10))
    /\ tSolution' = NULL
    /\ toast' = "Collection point added"
    /\ lastOp' = "AddSource"
    /\ prevSolution' = tSolution
    /\ ops' = ops + 1
    /\ UNCHANGED <<tSolving, tSupply, tDestinations, tDemand, tTimers, aVars, vVars,
                   cVars>>

AddSource ==
    /\ ops < MaxOps
    /\ tSources' = Append(tSources, 65 + Len(tSources))
    /\ tSupply' = Append(tSupply, 100)
    /\ tCost' = Append(tCost, Fill(Len(tDestinations), 10))
    /\ tSolution' = NULL
    /\ toast' = "Collection point added"
    /\ lastOp' = "AddSource"
    /\ prevSolution' = tSolution
    /\ ops' = ops + 1
    /\ UNCHANGED <<tSolving, tDestinations, tDemand, tTimers, aVars, vVars, cVars>>

RemoveSource ==
    \E index \in DOMAIN tSources :
        /\ ops < MaxOps
        /\ IF Len(tSources) <= 1
           THEN /\ toast' = "Must have at least one collection point"
                /\ UNCHANGED <<tSources, tSupply, tCost, tSolution>>
           ELSE /\ tSources' = RemoveAt(tSources, index)
                /\ tSupply' = RemoveAt(tSupply, index)
                /\ tCost' = RemoveAt(tCost, index)
                /\ tSolution' = NULL
                /\ toast' = "Collection point removed"
        /\ lastOp' = "RemoveSource"
        /\ prevSolution' = tSolution
        /\ ops' = ops + 1
        /\ UNCHANGED <<tSolving, tDestinations, tDemand, tTimers, aVars, vVars, cVars>>

AddDestination ==
    /\ ops < MaxOps
    /\ tDestinations' = Append(tDestinations, Len(tDestinations) + 1)
    /\ tDemand' = Append(tDemand, 100)
    /\ tCost' = [i \in DOMAIN tCost |-> Append(tCost[i], 10)]
    /\ tSolution' = NULL
    /\ toast' = "Processing center added"
    /\ lastOp' = "AddDestination"
    /\ prevSolution' = tSolution
    /\ ops' = ops + 1
    /\ UNCHANGED <<tSolving, tSources, tSupply, tTimers, aVars, vVars, cVars>>

RemoveDestination ==
    \E index \in DOMAIN tDestinations :
        /\ ops < MaxOps
        /\ IF Len(tDestinations) <= 1
           THEN /\ toast' = "Must have at least one processing center"
                /\ UNCHANGED <<tDestinations, tDemand, tCost, tSolution>>
           ELSE /\ tDestinations' = RemoveAt(tDestinations, index)
                /\ tDemand' = RemoveAt(tDemand, index)
                /\ tCost' = [i \in DOMAIN tCost |-> RemoveAt(tCost[i], index)]
                /\ tSolution' = NULL
                /\ toast' = "Processing center removed"
        /\ lastOp' = "RemoveDestination"
        /\ prevSolution' = tSolution
        /\ ops' = ops + 1
        /\ UNCHANGED <<tSolving, tSources, tSupply, tTimers, aVars, vVars, cVars>>

\* The Solve button of the Transportation view.  The function bound to it
\* (line 389) only declares a second, inner solveTransportation (lines 390-501:
\* the balance check, setSolving, setTimeout and the VAM body) and returns
\* without calling it, so a click changes no state and shows no toast.  The
\* button is rendered while solution is null and is disabled while solving.
SolveTransportation ==
    /\ tSolution.isNull
    /\ tSolving = FALSE
    /\ ops < MaxOps
    /\ toast' = ""
    /\ lastOp' = "SolveTransportation"
    /\ prevSolution' = tSolution
    /\ ops' = ops + 1
    /\ UNCHANGED <<tVars, aVars, vVars, cVars>>

---------------------------------------------------------------------------
(* Cost model (CostMinimization component) *)

\* A JavaScript number of the cost model, over exact arithmetic: the decimal
\* m / 10^e, kept with the least exponent e >= 0 so that equal numbers are equal
\* values.
RECURSIVE Dec(_, _)
Dec(m, e) ==
    IF e > 0 /\ m % 10 = 0 THEN Dec(m \div 10, e - 1) ELSE [m |-> m, e |-> e]

\* a * b
Mul(a, b) == Dec(a.m * b.m, a.e + b.e)

RECURSIVE Pow10(_)
Pow10(e) == IF e = 0 THEN 1 ELSE 10 * Pow10(e - 1)

\* a + b
Add(a, b) ==
    LET e == IF a.e >= b.e THEN a.e ELSE b.e
    IN  Dec(a.m * Pow10(e - a.e) + b.m * Pow10(e - b.e), e)

\* a - b
Sub(a, b) == Add(a, Dec(0 - b.m, b.e))

\* parseFloat(value): optional sign, decimal digits, optionally a point and
\* more digits; NaN when no digit is found
ParseFloat(text) ==
    LET neg == text # <<>> /\ Head(text) = "-"
        signed == text # <<>> /\ Head(text) \in {"-", "+"}
        body == IF signed THEN Tail(text) ELSE text
        int == DigitsPrefix(body, 0, 0)
        rest == SubSeq(body, int.n + 1, Len(body))
        frac == IF rest # <<>> /\ Head(rest) = "."
                THEN DigitsPrefix(Tail(rest), 0, 0)
                ELSE [n |-> 0, val |-> 0]
        m == int.val * Pow10(frac.n) + frac.val
    IN  [nan |-> int.n + frac.n = 0,
         val |-> Dec(IF neg THEN 0 - m ELSE m, frac.n)]

\* parseFloat(value) || 0: NaN and 0 are falsy
ParseFloatOrZero(text) ==
    LET p == ParseFloat(text) IN IF p.nan \/ p.val.m = 0 THEN Dec(0, 0) ELSE p.val

\* the text of an input of the cost model after a keystroke: the empty text of
\* a cleared input, "2.5" and "-1"
CostTexts == {<<>>, <<"2", ".", "5">>, <<"-", "1">>}

CostFields == {"collectionVolume", "transportationDistance", "processingRate",
               "disposalVolume"}

DefaultInputs ==
    [collectionVolume |-> Dec(1000, 0),
     transportationDistance |-> Dec(50, 0),
     processingRate |-> Dec(8, 1),
     disposalVolume |-> Dec(200, 0)]

InitC ==
    /\ cInputs = DefaultInputs
    /\ cResult = NULL
    /\ calcInputs = NULL

\* a handleInputChange that discards the stored result, as the edit handlers
\* of the other views discard their solution
HandleInputChangeClearsResult ==
    \E field \in CostFields : \E value \in CostTexts :
        /\ ops < MaxCostOps
        /\ cInputs' = [cInputs EXCEPT ![field] = ParseFloatOrZero(value)]
        /\ cResult' = NULL
        /\ toast' = ""
        /\ lastOp' = "HandleInputChange"
        /\ prevSolution' = cResult
        /\ ops' = ops + 1
        /\ UNCHANGED <<calcInputs, aVars, tVars, vVars>>

\* setInputs({ ...inputs, [field]: parseFloat(value) || 0 })
HandleInputChange ==
    \E field \in CostFields : \E value \in CostTexts :
        /\ ops < MaxCostOps
        /\ cInputs' = [cInputs EXCEPT ![field] = ParseFloatOrZero(value)]
        /\ toast' = ""
        /\ lastOp' = "HandleInputChange"
        /\ prevSolution' = cResult
        /\ ops' = ops + 1
        /\ UNCHANGED <<cResult, calcInputs, aVars, tVars, vVars>>

\* a recovery value that counts every processed unit as recovered (no 0.6)
RecoveryValueFullYield(inputs) ==
    Mul(Mul(inputs.collectionVolume, inputs.processingRate), Dec(20, 0))

\* inputs.collectionVolume * inputs.processingRate * 0.6 * 20
RecoveryValue(inputs) ==
    Mul(Mul(Mul(inputs.collectionVolume, inputs.processingRate), Dec(6, 1)),
        Dec(20, 0))

\* the object calculateOptimization passes to setResult
OptimizationResult(inputs) ==
    LET collectionCost == Mul(inputs.collectionVolume, Dec(5, 0))
        transportationCost ==
            Mul(Mul(inputs.transportationDistance, inputs.collectionVolume),
                Dec(1, 1))
        processingCost ==
            Mul(Mul(inputs.collectionVolume, inputs.processingRate), Dec(10, 0))
        disposalCost == Mul(inputs.disposalVolume, Dec(15, 0))
        recoveryValue == RecoveryValue(inputs)
        totalCost == Add(Add(Add(collectionCost, transportationCost),
                             processingCost), disposalCost)
        netCost == Sub(totalCost, recoveryValue)
    IN  [totalCost |-> totalCost,
         collectionCost |-> collectionCost,
         transportationCost |-> transportationCost,
         processingCost |-> processingCost,
         disposalCost |-> disposalCost,
         recoveryValue |-> recoveryValue,
         netCost |-> netCost]

\* the Calculate button
CalculateOptimization ==
    /\ ops < MaxCostOps
    /\ cResult' = Some(OptimizationResult(cInputs))
    /\ calcInputs' = Some(cInputs)
    /\ toast' = "Optimization complete!"
    /\ lastOp' = "CalculateOptimization"
    /\ prevSolution' = cResult
    /\ ops' = ops + 1
    /\ UNCHANGED <<cInputs, aVars, tVars, vVars>>

---------------------------------------------------------------------------
(* The VAM body of the inner solveTransportation (the setTimeout callback) *)

\* array.filter((_, k) => !used[k])
RECURSIVE FilterUnused(_, _)
FilterUnused(costs, used) ==
    IF costs = <<>> THEN <<>>
    ELSE IF Head(used) THEN FilterUnused(Tail(costs), Tail(used))
         ELSE <<Head(costs)>> \o FilterUnused(Tail(costs), Tail(used))

RECURSIVE InsertSorted(_, _)
InsertSorted(x, sorted) ==
    IF sorted = <<>> THEN <<x>>
    ELSE IF x <= Head(sorted) THEN <<x>> \o sorted
         ELSE <<Head(sorted)>> \o InsertSorted(x, Tail(sorted))

\* [...costs].sort((a, b) => a - b)
RECURSIVE SortAsc(_)
SortAsc(costs) ==
    IF costs = <<>> THEN <<>> ELSE InsertSorted(Head(costs), SortAsc(Tail(costs)))

\* the gap between the largest and the smallest cost
SortedRange(sorted) == sorted[Len(sorted)] - sorted[1]

\* sorted[1] - sorted[0]
SortedGap(sorted) == sorted[2] - sorted[1]

\* the penalty of one line from the costs of its unused cells
LinePenalty(costs) ==
    IF Len(costs) >= 2 THEN SortedGap(SortAsc(costs))
    ELSE IF Len(costs) = 1 THEN costs[1]
    ELSE 0

\* calcPenalty(matrix, usedRow, usedCol) with n rows and m columns
CalcPenalty(matrix, n, m, uRow, uCol) ==
    [rowPenalty |-> [i \in 1..n |->
                        IF uRow[i] THEN 0
                        ELSE LinePenalty(FilterUnused(matrix[i], uCol))],
     colPenalty |-> [j \in 1..m |->
                        IF uCol[j] THEN 0
                        ELSE LinePenalty(FilterUnused(Column(matrix, j), uRow))]]

\* let minCost = Infinity; for (k ...) if (!used[k] && costs[k] < minCost) {...}
\* selected = 0 stands for "nothing selected yet" (-1 and minCost = Infinity)
RECURSIVE MinCostScan(_, _, _, _, _)
MinCostScan(costs, used, k, minCost, selected) ==
    IF k > Len(costs) THEN selected
    ELSE IF ~used[k] /\ (selected = 0 \/ costs[k] < minCost)
         THEN MinCostScan(costs, used, k + 1, costs[k], k)
         ELSE MinCostScan(costs, used, k + 1, minCost, selected)

\* the first minimum-cost cell of a line among the cells not flagged used
MinCostCell(costs, used) == MinCostScan(costs, used, 1, 0, 0)

\* lines 443-471: the cell the iteration allocates to
SelectCell(matrix, n, m, uRow, uCol) ==
    LET pen == CalcPenalty(matrix, n, m, uRow, uCol)
        maxRowPenalty == MathMax(pen.rowPenalty)
        maxColPenalty == MathMax(pen.colPenalty)
        isRow == maxRowPenalty >= maxColPenalty
    IN  IF isRow
        THEN LET selectedRow == IndexOf(pen.rowPenalty, maxRowPenalty)
             IN  [isRow |-> TRUE, selectedRow |-> selectedRow,
                  selectedCol |-> MinCostCell(matrix[selectedRow], uCol)]
        ELSE LET selectedCol == IndexOf(pen.colPenalty, maxColPenalty)
             IN  [isRow |-> FALSE,
                  selectedRow |-> MinCostCell(Column(matrix, selectedCol), uRow),
                  selectedCol |-> selectedCol]

\* Math.max(a, b)
Max2(a, b) == IF a >= b THEN a ELSE b

\* Math.min(a, b)
Min2(a, b) == IF a <= b THEN a ELSE b

\* usedRow.some(v => !v) && usedCol.some(v => !v)
LoopCondition(uRow, uCol) ==
    /\ {i \in DOMAIN uRow : ~uRow[i]} # {}
    /\ {j \in DOMAIN uCol : ~uCol[j]} # {}

\* an allocation that flags the selected row used without the test of line 479
AllocateFlagsRow(remS, remD, alloc, uRow, uCol, r, c) ==
    LET quantity == Min2(remS[r], remD[c])
        newS == SetAt(remS, r, remS[r] - quantity)
        newD == SetAt(remD, c, remD[c] - quantity)
    IN  [remainingSupply |-> newS,
         remainingDemand |-> newD,
         allocated |-> SetCell(alloc, r, c, quantity),
         usedRow |-> SetAt(uRow, r, TRUE),
         usedCol |-> IF newD[c] = 0 THEN SetAt(uCol, c, TRUE) ELSE uCol]

\* lines 473-480: allocate to the cell (r, c) and flag the exhausted lines
Allocate(remS, remD, alloc, uRow, uCol, r, c) ==
    LET quantity == Min2(remS[r], remD[c])
        newS == SetAt(remS, r, remS[r] - quantity)
        newD == SetAt(remD, c, remD[c] - quantity)
    IN  [remainingSupply |-> newS,
         remainingDemand |-> newD,
         allocated |-> SetCell(alloc, r, c, quantity),
         usedRow |-> IF newS[r] = 0 THEN SetAt(uRow, r, TRUE) ELSE uRow,
         usedCol |-> IF newD[c] = 0 THEN SetAt(uCol, c, TRUE) ELSE uCol]

\* the loop's locals after one more iteration of the while body
Iterate(in, remS, remD, alloc, uRow, uCol) ==
    LET sel == SelectCell(in.costMatrix, Len(in.sources), Len(in.destinations),
                          uRow, uCol)
    IN  Allocate(remS, remD, alloc, uRow, uCol, sel.selectedRow, sel.selectedCol)

\* a collection without the allocated[i][j] > 0 test of line 486: one tuple
\* per cell
RECURSIVE CollectPlanAllCells(_, _, _)
CollectPlanAllCells(in, alloc, k) ==
    LET m == Len(in.destinations)
        i == ((k - 1) \div m) + 1
        j == ((k - 1) % m) + 1
    IN  IF k > Len(in.sources) * m THEN <<>>
        ELSE <<[from |-> in.sources[i], to |-> in.destinations[j],
                quantity |-> alloc[i][j], cost |-> in.costMatrix[i][j]]>>
             \o CollectPlanAllCells(in, alloc, k + 1)

\* lines 483-495: the cells with a positive allocation, row by row
RECURSIVE CollectPlan(_, _, _)
CollectPlan(in, alloc, k) ==
    LET m == Len(in.destinations)
        i == ((k - 1) \div m) + 1
        j == ((k - 1) % m) + 1
    IN  IF k > Len(in.sources) * m THEN <<>>
        ELSE IF alloc[i][j] > 0
             THEN <<[from |-> in.sources[i], to |-> in.destinations[j],
                     quantity |-> alloc[i][j], cost |-> in.costMatrix[i][j]]>>
                  \o CollectPlan(in, alloc, k + 1)
             ELSE CollectPlan(in, alloc, k + 1)

\* lines 402-409: the callback starts
VamStart(in) ==
    /\ vIn = in
    /\ remainingSupply = in.supply
    /\ remainingDemand = in.demand
    /\ allocated = Fill(Len(in.sources), Fill(Len(in.destinations), 0))
    /\ usedRow = Fill(Len(in.sources), FALSE)
    /\ usedCol = Fill(Len(in.destinations), FALSE)
    /\ optimalPlan = NULL
    /\ vPc = "loop"

\* one iteration of the while loop (lines 442-481)
VamIterate ==
    /\ vPc = "loop"
    /\ LoopCondition(usedRow, usedCol)
    /\ \E next \in {Iterate(vIn, remainingSupply, remainingDemand, allocated,
                            usedRow, usedCol)} :
           /\ remainingSupply' = next.remainingSupply
           /\ remainingDemand' = next.remainingDemand
           /\ allocated' = next.allocated
           /\ usedRow' = next.usedRow
           /\ usedCol' = next.usedCol
    /\ UNCHANGED <<vIn, optimalPlan, vPc, aVars, tVars, hVars, cVars>>

\* the loop exits and the plan is collected (lines 483-497)
VamCollect ==
    /\ vPc = "loop"
    /\ ~LoopCondition(usedRow, usedCol)
    /\ optimalPlan' = Some(CollectPlan(vIn, allocated, 1))
    /\ vPc' = "done"
    /\ UNCHANGED <<vIn, remainingSupply, remainingDemand, allocated, usedRow,
                   usedCol, aVars, tVars, hVars, cVars>>

\* a second callback that keeps the remaining supply of the run before it
\* instead of copying the closure's supply (line 405)
VamRerunKeepsSupply ==
    /\ vPc = "done"
    /\ remainingDemand' = vIn.demand
    /\ allocated' = Fill(Len(vIn.sources), Fill(Len(vIn.destinations), 0))
    /\ usedRow' = Fill(Len(vIn.sources), FALSE)
    /\ usedCol' = Fill(Len(vIn.destinations), FALSE)
    /\ vPc' = "loop"
    /\ UNCHANGED <<vIn, remainingSupply, optimalPlan, aVars, tVars, hVars, cVars>>

\* lines 402-409 again: a second callback on the same closure starts with fresh
\* locals; optimalPlan still holds the plan the run before it passed to
\* setSolution
VamRerun ==
    /\ vPc = "done"
    /\ remainingSupply' = vIn.supply
    /\ remainingDemand' = vIn.demand
    /\ allocated' = Fill(Len(vIn.sources), Fill(Len(vIn.destinations), 0))
    /\ usedRow' = Fill(Len(vIn.sources), FALSE)
    /\ usedCol' = Fill(Len(vIn.destinations), FALSE)
    /\ vPc' = "loop"
    /\ UNCHANGED <<vIn, optimalPlan, aVars, tVars, hVars, cVars>>

\* no VAM run: the views' specifications leave the run's variables alone
VamIdle ==
    /\ vIn = [sources |-> <<>>, destinations |-> <<>>, supply |-> <<>>,
              demand |-> <<>>, costMatrix |-> <<>>]
    /\ remainingSupply = <<>>
    /\ remainingDemand = <<>>
    /\ allocated = <<>>
    /\ usedRow = <<>>
    /\ usedCol = <<>>
    /\ optimalPlan = NULL
    /\ vPc = "idle"

InitShared ==
    /\ toast = ""
    /\ lastOp = "none"
    /\ prevSolution = NULL
    /\ ops = 0

AssignOps == {"UpdateCostA", "AddVehicle", "RemoveVehicle", "AddZone", "RemoveZone",
              "SolveAssignment", "AssignmentTimeout"}
TransOps == {"UpdateSupply", "UpdateDemand", "UpdateCostT", "AddSource",
             "RemoveSource", "AddDestination", "RemoveDestination",
             "SolveTransportation"}

InitAssign == InitA /\ InitT /\ InitC /\ VamIdle /\ InitShared

NextAssign ==
    \/ UpdateCostA
    \/ AddVehicle
    \/ RemoveVehicle
    \/ AddZone
    \/ RemoveZone
    \/ SolveAssignment
    \/ AssignmentTimeout

SpecAssign == InitAssign /\ [][NextAssign]_vars

\* a session of at most MaxFairOps handler calls
NextAssignFair == NextAssign /\ ops' <= MaxFairOps

\* the timer fires: a pending callback is eventually run
SpecAssignFair ==
    InitAssign /\ [][NextAssignFair]_vars /\ WF_vars(AssignmentTimeout)

InitTrans == InitA /\ InitT /\ InitC /\ VamIdle /\ InitShared

NextTrans ==
    \/ UpdateSupply
    \/ UpdateDemand
    \/ UpdateCostT
    \/ AddSource
    \/ RemoveSource
    \/ AddDestination
    \/ RemoveDestination
    \/ SolveTransportation

SpecTrans == InitTrans /\ [][NextTrans]_vars

\* the unit costs of the enumerated VAM instances
VamCosts == {0, 1}

\* the closure of a run on the default state of the Transportation view
DefaultInstance ==
    [sources |-> DefaultSources, destinations |-> DefaultDestinations,
     supply |-> DefaultSupply, demand |-> DefaultDemand,
     costMatrix |-> DefaultTransCost]

\* the closure of a run on a state the edit handlers can produce: a shape up to
\* the default one, non-negative integers, supply and demand balanced (the
\* callback is only scheduled on a balanced state)
EnumeratedInstance(n, m, supply, demand, costMatrix) ==
    [sources |-> [k \in 1..n |-> 64 + k],
     destinations |-> [k \in 1..m |-> k],
     supply |-> supply, demand |-> demand, costMatrix |-> costMatrix]

\* The VAM body run on its own, from the closure of a balanced state.  (In the
\* program the callback that holds it is never scheduled: see SolveTransportation.)
InitVam ==
    /\ InitA /\ InitT /\ InitC /\ InitShared
    /\ \/ VamStart(DefaultInstance)
       \/ \E n \in 1..Len(DefaultSources), m \in 1..Len(DefaultDestinations) :
            \E supply \in [1..n -> 0..MaxTotal] :
                /\ SumSeq(supply) <= MaxTotal
                /\ \E demand \in [1..m -> 0..MaxTotal] :
                    /\ SumSeq(demand) = SumSeq(supply)
                    /\ \E costMatrix \in [1..n -> [1..m -> VamCosts]] :
                        VamStart(EnumeratedInstance(n, m, supply, demand,
                                                    costMatrix))

NextVam ==
    \/ VamIterate
    \/ VamCollect

SpecVam == InitVam /\ [][NextVam]_vars

InitCost == InitA /\ InitT /\ InitC /\ VamIdle /\ InitShared

NextCost ==
    \/ HandleInputChange
    \/ CalculateOptimization

SpecCost == InitCost /\ [][NextCost]_vars

\* the cost a cell of the Assignment view can be edited to
EditedCosts == {ParseIntOrZero(value) : value \in AssignTexts}

\* the cost matrices up to k calls of updateCost away from the default one
RECURSIVE EditedMatrices(_)
EditedMatrices(k) ==
    IF k = 0 THEN {DefaultCostMatrix}
    ELSE LET before == EditedMatrices(k - 1)
         IN  before \cup
             {SetCell(matrix, row, col, numValue) :
                 matrix \in before, row \in DOMAIN DefaultCostMatrix,
                 col \in DOMAIN DefaultCostMatrix[1], numValue \in EditedCosts}

\* Repeated solves of one snapshot.  Assignment view: the cost cells were
\* edited, the solution on display is none or the one of the default matrix
\* (left there by a callback that was pending during the edits), and from
\* then on the user only clicks Solve.  VAM: the body is run again and again
\* on one closure.
InitRuns ==
    \/ /\ InitT /\ InitC /\ VamIdle /\ InitShared
       /\ aSolving = FALSE
       /\ aZones = DefaultZones
       /\ aVehicles = DefaultVehicles
       /\ aTimers = <<>>
       /\ aCost \in EditedMatrices(MaxEdits)
       /\ aSolution \in {NULL, Some(OptimalAssignments(DefaultVehicles, DefaultZones,
                                                       DefaultCostMatrix))}
    \/ InitVam

NextRuns ==
    \/ vPc = "idle" /\ SolveAssignment
    \/ vPc = "idle" /\ AssignmentTimeout
    \/ VamIterate
    \/ VamCollect
    \/ VamRerun

SpecRuns == InitRuns /\ [][NextRuns]_vars

\* a session in one of the two views; the components share no state, so what a
\* handler of one view does is independent of the steps of the other
NextViews ==
    \/ lastOp \in {"none"} \cup AssignOps /\ NextAssign
    \/ lastOp \in {"none"} \cup TransOps /\ NextTrans

SpecViews == InitAssign /\ [][NextViews]_vars

\* seq.filter((_, i) => i >= seq.length - n): what n - fold removal of the
\* first entry leaves
LastEntries(seq, n) == SubSeq(seq, Len(seq) - n + 1, Len(seq))

\* how many vehicles, and how many zones, the earlier removals have left
KeptCounts == {1, 2}

\* A session that continues after removals: removeVehicle(0) and removeZone(0)
\* have left the last n vehicles and the last m zones of the Assignment view,
\* with their costs, and no solution; the Transportation view is as constructed.
InitShrunk ==
    /\ InitT /\ InitC /\ VamIdle /\ InitShared
    /\ aSolving = FALSE
    /\ aSolution = NULL
    /\ aTimers = <<>>
    /\ \E n \in KeptCounts, m \in KeptCounts :
        /\ aVehicles = LastEntries(DefaultVehicles, n)
        /\ aZones = LastEntries(DefaultZones, m)
        /\ aCost = [i \in 1..n |->
                       LastEntries(LastEntries(DefaultCostMatrix, n)[i], m)]

SpecShrunk == InitShrunk /\ [][NextViews]_vars

---------------------------------------------------------------------------
(* Properties of the VAM run, under SpecVam *)

\* the quantity allocated in row i, in column j, and in total
RowTotal(i) == SumSeq(allocated[i])
ColTotal(j) == SumSeq(Column(allocated, j))
AllocatedTotal == SumSeq([i \in DOMAIN allocated |-> RowTotal(i)])

\* C1: flow conservation.  When the VAM loop has finished on a balanced
\* instance of non-negative integers, every source's allocations sum to its
\* supply and every destination's to its demand; on the default instance the
\* allocated total is 1200.
C1_FlowConservation ==
    vPc = "done" =>
        /\ \A i \in DOMAIN vIn.supply : RowTotal(i) = vIn.supply[i]
        /\ \A j \in DOMAIN vIn.demand : ColTotal(j) = vIn.demand[j]
        /\ vIn = DefaultInstance => AllocatedTotal = 1200

\* a finished run that split one source's supply over two destinations
C1_Witness ==
    /\ vPc = "done"
    /\ \E i \in DOMAIN allocated :
        Cardinality({j \in DOMAIN allocated[i] : allocated[i][j] > 0}) >= 2

\* C2: termination.  The while loop reaches its exit on every balanced
\* instance of non-negative integers: no reachable state with an unused row and
\* an unused column is left as it is by an iteration (the loop body is
\* deterministic, so such a state repeats forever).
C2_LoopTerminates ==
    (vPc = "loop" /\ LoopCondition(usedRow, usedCol)) =>
        Iterate(vIn, remainingSupply, remainingDemand, allocated, usedRow, usedCol)
            # [remainingSupply |-> remainingSupply,
               remainingDemand |-> remainingDemand,
               allocated |-> allocated,
               usedRow |-> usedRow,
               usedCol |-> usedCol]

---------------------------------------------------------------------------
(* Properties of the Transportation view, under SpecTrans *)

\* C3: a click on Solve with balanced supply and demand ends with solving
\* false and a solution present: once the handler has run on a balanced state
\* and no deferred callback is outstanding, the solution is set.
C3_SolveYieldsSolution ==
    (/\ lastOp = "SolveTransportation"
     /\ SumSeq(tSupply) = SumSeq(tDemand)
     /\ tTimers = <<>>)
        => (tSolving = FALSE /\ ~tSolution.isNull)

\* C4: a click on Solve with unbalanced supply and demand reports a balance
\* error and aborts: a toast is shown, no callback is scheduled, solving stays
\* false and the solution keeps its prior value.
C4_UnbalancedReported ==
    (lastOp = "SolveTransportation" /\ SumSeq(tSupply) # SumSeq(tDemand)) =>
        /\ toast # ""
        /\ tTimers = <<>>
        /\ tSolving = FALSE
        /\ tSolution = prevSolution

---------------------------------------------------------------------------
(* Properties of the Assignment view, under SpecAssign *)

\* a step of the deferred callback of solveAssignment; it reads Head(aTimers)
AssignmentTimeoutStep ==
    /\ aTimers # <<>>
    /\ aTimers' = Tail(aTimers)
    /\ lastOp' = "AssignmentTimeout"

\* column j holds the minimum of row, and no column before j does
IsFirstMinimum(row, j) ==
    /\ \A k \in DOMAIN row : row[j] <= row[k]
    /\ \A k \in 1..(j - 1) : row[j] < row[k]

\* C5: the i-th tuple of a produced solution carries the minimum of row i of
\* the solved (square) matrix and the zone of the lowest column attaining it;
\* the default matrix gives Zone A (45), Zone B (40), Zone C (40), Zone D (40),
\* total 165.
C5_RowMinimum ==
    [][AssignmentTimeoutStep =>
        LET c == Head(aTimers)
        IN  /\ \A i \in DOMAIN c.costMatrix :
                \E j \in DOMAIN c.costMatrix[i] :
                    /\ IsFirstMinimum(c.costMatrix[i], j)
                    /\ aSolution'.items[i].cost = c.costMatrix[i][j]
                    /\ aSolution'.items[i].zone = c.zones[j]
            /\ (c.costMatrix = DefaultCostMatrix /\ c.zones = DefaultZones) =>
                /\ [i \in 1..4 |-> aSolution'.items[i].zone] = <<65, 66, 67, 68>>
                /\ [i \in 1..4 |-> aSolution'.items[i].cost] = <<45, 40, 40, 40>>
                /\ TotalCostA' = 165]_vars

\* a solution just produced for a matrix one of whose rows attains its minimum
\* in two columns, the tuple carrying the zone of the first of them
C5_Witness ==
    /\ lastOp = "AssignmentTimeout"
    /\ Len(aSolution.items) = Len(aCost)
    /\ \E i \in DOMAIN aCost : \E j, k \in DOMAIN aCost[i] :
        /\ j < k
        /\ aCost[i][j] = aCost[i][k]
        /\ IsFirstMinimum(aCost[i], j)
        /\ aSolution.items[i].cost = aCost[i][j]
        /\ aSolution.items[i].zone = aZones[j]
        /\ aZones[j] # aZones[k]

\* C6: a click on Solve with different numbers of vehicles and zones reports
\* the error and aborts: no callback is scheduled, solving stays false and the
\* solution keeps its prior value.
C6_MismatchRefused ==
    (lastOp = "SolveAssignment" /\ Len(aVehicles) # Len(aZones)) =>
        /\ toast = "Number of vehicles must equal number of zones"
        /\ aTimers = <<>>
        /\ aSolving = FALSE
        /\ aSolution = prevSolution

\* a refused solve that left a solution already on display in place
C6_Witness ==
    /\ lastOp = "SolveAssignment"
    /\ Len(aVehicles) # Len(aZones)
    /\ toast = "Number of vehicles must equal number of zones"
    /\ ~aSolution.isNull

AssignEdits == {"UpdateCostA", "AddVehicle", "RemoveVehicle", "AddZone", "RemoveZone"}
TransEdits == {"UpdateSupply", "UpdateDemand", "UpdateCostT", "AddSource",
               "RemoveSource", "AddDestination", "RemoveDestination"}
Refusals == {"Must have at least one vehicle", "Must have at least one zone",
             "Must have at least one collection point",
             "Must have at least one processing center"}

\* C7 (under SpecViews): right after every edit handler that was not refused,
\* the solution of its view is null, whatever it was before.
C7_EditClearsSolution ==
    /\ (lastOp \in AssignEdits /\ toast \notin Refusals) => aSolution = NULL
    /\ (lastOp \in TransEdits /\ toast \notin Refusals) => tSolution = NULL

\* an edit that found a solution on display and cleared it
C7_Witness ==
    /\ lastOp \in AssignEdits
    /\ toast \notin Refusals
    /\ ~prevSolution.isNull
    /\ aSolution = NULL

\* C8: whenever the solution is non-null it is the heuristic's result on the
\* current costMatrix, vehicles and zones, under every interleaving of edits
\* with the deferred callback.
C8_SolutionIsCurrent ==
    ~aSolution.isNull =>
        aSolution.items = OptimalAssignments(aVehicles, aZones, aCost)

\* C9: a produced solution holds exactly one tuple per vehicle of the solved
\* state, in vehicle order.
C9_OneTuplePerVehicle ==
    [][AssignmentTimeoutStep =>
        LET c == Head(aTimers)
        IN  /\ ~aSolution'.isNull
            /\ Len(aSolution'.items) = Len(c.vehicles)
            /\ \A i \in DOMAIN c.vehicles :
                aSolution'.items[i].vehicle = c.vehicles[i]]_vars

\* a solution of five tuples, produced after a vehicle and a zone were added
C9_Witness ==
    /\ lastOp = "AssignmentTimeout"
    /\ Len(aVehicles) = 5
    /\ Len(aSolution.items) = 5
    /\ [i \in 1..5 |-> aSolution.items[i].vehicle] = aVehicles

Range(seq) == {seq[k] : k \in DOMAIN seq}

---------------------------------------------------------------------------
(* Properties of the cost model, under SpecCost *)

\* the number x as an integer count of 10^-k (x has at most k decimals)
Scaled(x, k) == x.m * Pow10(k - x.e)

\* C11: right after calculateOptimization the result holds, for the inputs
\* (V, D, R, W): collectionCost = 5V, transportationCost = 0.1 D V,
\* processingCost = 10 V R, disposalCost = 15 W, recoveryValue = 0.6 * 20 V R,
\* totalCost = the sum of the four costs, netCost = totalCost - recoveryValue
\* (compared as integers: inputs in tenths, outputs in thousandths); the
\* inputs (1000, 50, 0.8, 200) give 5000, 5000, 8000, 3000, total 21000,
\* recovery 9600, net 11400, and all-zero inputs give all-zero outputs.
C11_CostFormula ==
    lastOp = "CalculateOptimization" =>
        LET V == Scaled(cInputs.collectionVolume, 1)
            D == Scaled(cInputs.transportationDistance, 1)
            R == Scaled(cInputs.processingRate, 1)
            W == Scaled(cInputs.disposalVolume, 1)
            r == cResult.items
        IN  /\ ~cResult.isNull
            /\ Scaled(r.collectionCost, 3) = 500 * V
            /\ Scaled(r.transportationCost, 3) = D * V
            /\ Scaled(r.processingCost, 3) = 100 * V * R
            /\ Scaled(r.disposalCost, 3) = 1500 * W
            /\ Scaled(r.recoveryValue, 3) = 120 * V * R
            /\ Scaled(r.totalCost, 3) =
                   500 * V + D * V + 100 * V * R + 1500 * W
            /\ Scaled(r.netCost, 3) =
                   Scaled(r.totalCost, 3) - Scaled(r.recoveryValue, 3)
            /\ cInputs = DefaultInputs =>
                r = [collectionCost |-> Dec(5000, 0),
                     transportationCost |-> Dec(5000, 0),
                     processingCost |-> Dec(8000, 0),
                     disposalCost |-> Dec(3000, 0),
                     totalCost |-> Dec(21000, 0),
                     recoveryValue |-> Dec(9600, 0),
                     netCost |-> Dec(11400, 0)]
            /\ (V = 0 /\ D = 0 /\ R = 0 /\ W = 0) =>
                \A f \in DOMAIN r : r[f] = Dec(0, 0)

\* a result computed from a volume and a distance both edited to 2.5, with the
\* fractional transportation cost 0.625
C11_Witness ==
    /\ lastOp = "CalculateOptimization"
    /\ cInputs.collectionVolume = Dec(25, 1)
    /\ cInputs.transportationDistance = Dec(25, 1)
    /\ cResult.items.transportationCost = Dec(625, 3)

---------------------------------------------------------------------------
(* Properties of repeated solves, under SpecRuns *)

\* a step that collects the plan of a finished VAM run
VamCollectStep == vPc = "loop" /\ vPc' = "done"

---------------------------------------------------------------------------
(* Properties of the edit handlers of both views, under SpecViews *)

\* C13: shape consistency.  After any sequence of add, remove and update
\* operations the cost matrix has one row per row label (vehicle / source) and
\* every row one cell per column label (zone / destination); supply has one
\* entry per source and demand one per destination; no label list is empty.
C13_ShapeConsistent ==
    /\ Len(aCost) = Len(aVehicles)
    /\ \A i \in DOMAIN aCost : Len(aCost[i]) = Len(aZones)
    /\ Len(tCost) = Len(tSources)
    /\ \A i \in DOMAIN tCost : Len(tCost[i]) = Len(tDestinations)
    /\ Len(tSupply) = Len(tSources)
    /\ Len(tDemand) = Len(tDestinations)
    /\ Len(aVehicles) >= 1 /\ Len(aZones) >= 1
    /\ Len(tSources) >= 1 /\ Len(tDestinations) >= 1

\* a 4 x 2 transportation problem, reached by adding a source and removing a
\* destination
C13_Witness ==
    /\ lastOp \in {"AddSource", "RemoveDestination"}
    /\ Len(tSources) = 4
    /\ Len(tDestinations) = 2
    /\ Len(tCost) = 4
    /\ \A i \in DOMAIN tCost : Len(tCost[i]) = 2
    /\ Len(tSupply) = 4
    /\ Len(tDemand) = 2

---------------------------------------------------------------------------
(* Properties of the collected plan and of the loop, under SpecVam *)

\* the row-major position of the cell a plan tuple names
PlanPosition(tuple) ==
    (IndexOf(vIn.sources, tuple.from) - 1) * Len(vIn.destinations)
        + IndexOf(vIn.destinations, tuple.to)

\* C14: the plan of a finished run holds exactly one tuple for each cell with
\* allocated[i][j] > 0 and none for any other cell, in row-major order; a
\* tuple's quantity is that allocation, a positive integer, and its cost is
\* costMatrix[i][j].
C14_PlanListsPositiveCells ==
    vPc = "done" =>
        LET plan == optimalPlan.items
            positive == {cell \in (DOMAIN allocated) \X (DOMAIN vIn.destinations) :
                            allocated[cell[1]][cell[2]] > 0}
        IN  /\ ~optimalPlan.isNull
            /\ Len(plan) = Cardinality(positive)
            /\ \A cell \in positive : \E k \in DOMAIN plan :
                   plan[k] = [from |-> vIn.sources[cell[1]],
                              to |-> vIn.destinations[cell[2]],
                              quantity |-> allocated[cell[1]][cell[2]],
                              cost |-> vIn.costMatrix[cell[1]][cell[2]]]
            /\ \A k \in DOMAIN plan : plan[k].quantity \in Nat \ {0}
            /\ \A k, l \in DOMAIN plan :
                   k < l => PlanPosition(plan[k]) < PlanPosition(plan[l])

\* the plan of the default instance: three tuples, the first for the cell
\* (Collection A, Processing 3), the cells before it holding 0
C14_Witness ==
    /\ vPc = "done"
    /\ vIn = DefaultInstance
    /\ Len(optimalPlan.items) = 3
    /\ allocated[1][1] = 0
    /\ optimalPlan.items[1] = [from |-> 65, to |-> 3, quantity |-> 300, cost |-> 10]

\* the cell the next iteration of the loop allocates to
NextSelection ==
    SelectCell(vIn.costMatrix, Len(vIn.sources), Len(vIn.destinations),
               usedRow, usedCol)

\* the penalties the next iteration computes
NextPenalty ==
    CalcPenalty(vIn.costMatrix, Len(vIn.sources), Len(vIn.destinations),
                usedRow, usedCol)

\* k is the first cell of minimum cost among the cells of costs not flagged used
IsFirstUnusedMinimum(costs, used, k) ==
    /\ k \in DOMAIN costs
    /\ ~used[k]
    /\ \A h \in DOMAIN costs : ~used[h] => costs[k] <= costs[h]
    /\ \A h \in 1..(k - 1) : ~used[h] => costs[k] < costs[h]

\* C15: in every iteration the cell chosen for allocation lies in an unused row
\* and an unused column: the selected line is an unused row (when the largest
\* row penalty is at least the largest column penalty) or else an unused
\* column, carrying the largest penalty among all unused rows and columns, and
\* the cell picked within it is the first minimum-cost cell among the unused
\* columns (or rows).
C15_SelectedCellUnused ==
    (vPc = "loop" /\ LoopCondition(usedRow, usedCol)) =>
        \A sel \in {NextSelection} : \A pen \in {NextPenalty} :
        LET r == sel.selectedRow
            c == sel.selectedCol
            unusedRows == {i \in DOMAIN usedRow : ~usedRow[i]}
            unusedCols == {j \in DOMAIN usedCol : ~usedCol[j]}
            linePenalty == IF sel.isRow THEN pen.rowPenalty[r] ELSE pen.colPenalty[c]
        IN  /\ r \in unusedRows
            /\ c \in unusedCols
            /\ \A i \in unusedRows : pen.rowPenalty[i] <= linePenalty
            /\ \A j \in unusedCols : pen.colPenalty[j] <= linePenalty
            /\ sel.isRow <=>
                   \E i \in unusedRows : \A j \in unusedCols :
                       pen.rowPenalty[i] >= pen.colPenalty[j]
            /\ IF sel.isRow
               THEN IsFirstUnusedMinimum(vIn.costMatrix[r], usedCol, c)
               ELSE IsFirstUnusedMinimum(Column(vIn.costMatrix, c), usedRow, r)

\* p is what the claim gives a line whose unused cells are costs[k], k \in cells:
\* second-smallest minus smallest of two or more, the single cost of one
IsVogelPenalty(costs, cells, p) ==
    IF Cardinality(cells) = 1
    THEN \A k \in cells : p = costs[k]
    ELSE \E a \in cells : \E b \in cells \ {a} :
            /\ \A h \in cells : costs[a] <= costs[h]
            /\ \A h \in cells \ {a} : costs[b] <= costs[h]
            /\ p = costs[b] - costs[a]

\* C16: calcPenalty returns, for each unused row, second-smallest minus
\* smallest cost over the unused columns when at least two remain and the
\* single remaining cost when one remains, symmetrically for each unused
\* column over the unused rows, and 0 for used rows and columns.
C16_CalcPenalty ==
    (vPc = "loop" /\ LoopCondition(usedRow, usedCol)) =>
        \A pen \in {NextPenalty} :
        LET unusedRows == {i \in DOMAIN usedRow : ~usedRow[i]}
            unusedCols == {j \in DOMAIN usedCol : ~usedCol[j]}
        IN  /\ DOMAIN pen.rowPenalty = DOMAIN usedRow
            /\ DOMAIN pen.colPenalty = DOMAIN usedCol
            /\ \A i \in DOMAIN usedRow :
                   IF usedRow[i] THEN pen.rowPenalty[i] = 0
                   ELSE IsVogelPenalty(vIn.costMatrix[i], unusedCols,
                                       pen.rowPenalty[i])
            /\ \A j \in DOMAIN usedCol :
                   IF usedCol[j] THEN pen.colPenalty[j] = 0
                   ELSE IsVogelPenalty(Column(vIn.costMatrix, j), unusedRows,
                                       pen.colPenalty[j])

\* penalties computed with one row used: the one unused row has two unused
\* columns and a positive gap, and a column, left with that row alone, has its
\* single positive cost as penalty
C16_Witness ==
    /\ vPc = "loop"
    /\ LoopCondition(usedRow, usedCol)
    /\ \E u \in DOMAIN usedRow : usedRow[u] /\ NextPenalty.rowPenalty[u] = 0
    /\ \E i \in DOMAIN usedRow :
        /\ {k \in DOMAIN usedRow : ~usedRow[k]} = {i}
        /\ Cardinality({j \in DOMAIN usedCol : ~usedCol[j]}) >= 2
        /\ NextPenalty.rowPenalty[i] > 0
        /\ \E j \in DOMAIN usedCol :
            /\ ~usedCol[j]
            /\ vIn.costMatrix[i][j] > 0
            /\ NextPenalty.colPenalty[j] = vIn.costMatrix[i][j]

\* C17: throughout the loop on a balanced instance of non-negative integers,
\* every remaining-supply and remaining-demand counter is >= 0, the remaining
\* supply sums to the remaining demand, a row (column) is flagged used only
\* when its remaining supply (demand) is 0, and the quantity an iteration
\* allocates is the minimum of the selected row's remaining supply and the
\* selected column's remaining demand, by which both are decremented.
C17_LoopInvariants ==
    vPc \in {"loop", "done"} =>
        /\ \A i \in DOMAIN remainingSupply : remainingSupply[i] >= 0
        /\ \A j \in DOMAIN remainingDemand : remainingDemand[j] >= 0
        /\ SumSeq(remainingSupply) = SumSeq(remainingDemand)
        /\ \A i \in DOMAIN usedRow : usedRow[i] => remainingSupply[i] = 0
        /\ \A j \in DOMAIN usedCol : usedCol[j] => remainingDemand[j] = 0
        /\ (vPc = "loop" /\ LoopCondition(usedRow, usedCol)) =>
            \A sel \in {NextSelection} :
            \A next \in {Allocate(remainingSupply, remainingDemand, allocated, usedRow,
                                  usedCol, sel.selectedRow, sel.selectedCol)} :
                \A quantity \in {next.allocated[sel.selectedRow][sel.selectedCol]} :
                    LET r == sel.selectedRow
                        c == sel.selectedCol
                    IN  /\ quantity <= remainingSupply[r]
                        /\ quantity <= remainingDemand[c]
                        /\ quantity \in {remainingSupply[r], remainingDemand[c]}
                        /\ next.remainingSupply[r] = remainingSupply[r] - quantity
                        /\ next.remainingDemand[c] = remainingDemand[c] - quantity

\* in the loop, after an allocation that exhausted a row and left its column
\* with demand still to meet
C17_Witness ==
    /\ vPc = "loop"
    /\ LoopCondition(usedRow, usedCol)
    /\ \E r \in DOMAIN usedRow : \E c \in DOMAIN usedCol :
        /\ usedRow[r]
        /\ ~usedCol[c]
        /\ allocated[r][c] > 0
        /\ allocated[r][c] = vIn.supply[r]
        /\ remainingDemand[c] = vIn.demand[c] - allocated[r][c]
        /\ remainingDemand[c] > 0

---------------------------------------------------------------------------
(* Properties of the solving flag, under SpecAssignFair *)

\* C18: a solveAssignment with as many vehicles as zones sets solving and
\* schedules exactly one deferred callback; solving is true only while that
\* callback is pending; and, the callback eventually firing, solving
\* eventually becomes false with a non-null solution.
C18_SolvingWhilePending ==
    /\ []((lastOp = "SolveAssignment" /\ Len(aVehicles) = Len(aZones)) =>
             (aSolving = TRUE /\ Len(aTimers) = 1))
    /\ [](aSolving = TRUE <=> aTimers # <<>>)
    /\ [](Len(aTimers) <= 1)
    /\ (aSolving = TRUE) ~> (aSolving = FALSE /\ ~aSolution.isNull)

\* a callback pending with solving true although the view has since been
\* edited to five vehicles and four zones
C18_Witness ==
    /\ aSolving = TRUE
    /\ Len(aTimers) = 1
    /\ Len(aVehicles) = 5
    /\ Len(aZones) = 4
    /\ aSolution.isNull

\* C19: once a cell of the allocation matrix has received a positive
\* quantity, no later iteration of the loop changes that cell: the next
\* iteration leaves every positive cell as it is.
C19_PositiveCellKept ==
    (vPc = "loop" /\ LoopCondition(usedRow, usedCol)) =>
        \A next \in {Iterate(vIn, remainingSupply, remainingDemand, allocated,
                             usedRow, usedCol)} :
            \A i \in DOMAIN allocated : \A j \in DOMAIN allocated[i] :
                allocated[i][j] > 0 => next.allocated[i][j] = allocated[i][j]

---------------------------------------------------------------------------
(* Properties of the labels, under SpecViews *)

\* no two entries of the list are equal
PairwiseDistinct(labels) ==
    \A k, l \in DOMAIN labels : k # l => labels[k] # labels[l]

\* C20: after any sequence of addVehicle/removeVehicle (addZone/removeZone,
\* addSource/removeSource, addDestination/removeDestination) the labels of each
\* list are pairwise distinct.
C20_LabelsDistinct ==
    /\ PairwiseDistinct(aVehicles)
    /\ PairwiseDistinct(aZones)
    /\ PairwiseDistinct(tSources)
    /\ PairwiseDistinct(tDestinations)

---------------------------------------------------------------------------
(* Properties of the refused removals, under SpecShrunk *)

\* a step of the handler called name
HandlerStep(name) == lastOp' = name /\ ops' = ops + 1

\* C21: removing the last remaining entity is refused.  removeVehicle,
\* removeZone, removeSource or removeDestination called when its list has
\* exactly one entry reports its error and leaves the labels, the cost matrix,
\* the supply and demand vectors and the solution (which is not cleared) as
\* they were.
C21_LastRemovalRefused ==
    [][/\ (HandlerStep("RemoveVehicle") /\ Len(aVehicles) = 1) =>
            /\ toast' = "Must have at least one vehicle"
            /\ UNCHANGED <<aVehicles, aZones, aCost, aSolution>>
       /\ (HandlerStep("RemoveZone") /\ Len(aZones) = 1) =>
            /\ toast' = "Must have at least one zone"
            /\ UNCHANGED <<aVehicles, aZones, aCost, aSolution>>
       /\ (HandlerStep("RemoveSource") /\ Len(tSources) = 1) =>
            /\ toast' = "Must have at least one collection point"
            /\ UNCHANGED <<tSources, tDestinations, tCost, tSupply, tDemand,
                           tSolution>>
       /\ (HandlerStep("RemoveDestination") /\ Len(tDestinations) = 1) =>
            /\ toast' = "Must have at least one processing center"
            /\ UNCHANGED <<tSources, tDestinations, tCost, tSupply, tDemand,
                           tSolution>>]_vars

\* the removal of the only vehicle was refused with a solution on display,
\* which is still there
C21_Witness ==
    /\ lastOp = "RemoveVehicle"
    /\ toast = "Must have at least one vehicle"
    /\ Len(aVehicles) = 1
    /\ ~aSolution.isNull
    /\ aSolution = prevSolution

---------------------------------------------------------------------------
(* Frame of the cost model's handlers, under SpecCost *)

\* C22: handleInputChange changes only the edited input field and leaves the
\* stored result unchanged; whenever result is non-null it is the formula
\* applied to the inputs as they were at the most recent
\* calculateOptimization (not necessarily the current inputs); and only
\* calculateOptimization ever replaces it.
C22_ResultFrame ==
    /\ [](~cResult.isNull =>
             /\ ~calcInputs.isNull
             /\ cResult.items = OptimizationResult(calcInputs.items))
    /\ [][/\ HandlerStep("HandleInputChange") =>
               /\ cResult' = cResult
               /\ DOMAIN cInputs' = CostFields
               /\ \E field \in CostFields :
                      \A other \in CostFields \ {field} :
                          cInputs'[other] = cInputs[other]
          /\ cResult' # cResult => HandlerStep("CalculateOptimization")]_vars

\* an edit has changed a field after a calculation: the result on display is
\* still the one of the inputs before the edit, not of the current inputs
C22_Witness ==
    /\ lastOp = "HandleInputChange"
    /\ ~cResult.isNull
    /\ cResult = prevSolution
    /\ calcInputs.items # cInputs
    /\ cResult.items = OptimizationResult(calcInputs.items)
    /\ cResult.items # OptimizationResult(cInputs)

=============================================================================
